---- MODULE Spec2Model ----
(***************************************************************************)
(* Model of regpol.py: RegFile.load, Entry.loads and RegType.              *)
(*                                                                         *)
(* Bytes are naturals in 0..255, a bytes object is a sequence of bytes, a  *)
(* str is a sequence of Unicode code points.  RegFile.load is modelled as  *)
(* the sequence of steps it executes on one file: the two header reads     *)
(* with their checks, the read-and-decode of the body, the split on "]",   *)
(* one Entry.loads per non-empty fragment, and the return.  The content of *)
(* the file is the input: its header is fixed when the file is opened, its *)
(* body when f.read() reads it.                                            *)
(***************************************************************************)
EXTENDS Integers, Sequences, FiniteSets, TLC

\* ------------------------------------------------------------------------
\* Bounds of the input domain
\* ------------------------------------------------------------------------

\* most trailing NUL characters appended to a field of a generated record
MaxNul == 2

\* most pieces (records, a lone "]") of a generated body of several records
MaxRecords == 3

\* ------------------------------------------------------------------------
\* Program constants
\* ------------------------------------------------------------------------

\* REGFILE_SIGNATURE = b'\x50\x52\x65\x67'
REGFILE_SIGNATURE == <<80, 82, 101, 103>>

\* REGISTRY_FILE_VERSION = 0x00000001
REGISTRY_FILE_VERSION == 1

\* class RegType(enum.Enum): the values of the members, REG_NONE .. REG_QWORD
RegTypeValues == 0 .. 11

\* RegType.REG_SZ
REG_SZ == 1

\* the characters the code names: "\x00", ";", "]" and (in its comments) "["
NUL == 0
Semicolon == 59
RBracket == 93
LBracket == 91

\* ------------------------------------------------------------------------
\* Library functions the code calls, computed as Python computes them
\* ------------------------------------------------------------------------

MinOf(S) == CHOOSE x \in S : \A y \in S : x <= y
MaxOf(S) == CHOOSE x \in S : \A y \in S : x >= y

\* s[n:]  (drop the first n items; the empty sequence stays empty)
DropFirst(s, n) == SubSeq(s, n + 1, Len(s))

\* a wrong str.rstrip: drops one trailing c at most
RStripOnce(s, c) ==
  IF s # <<>> /\ s[Len(s)] = c THEN SubSeq(s, 1, Len(s) - 1) ELSE s

\* str.rstrip(chars) for a one-character argument: drop every trailing c
RStrip(s, c) ==
  LET keep == {i \in 1 .. Len(s) : s[i] # c}
  IN  IF keep = {} THEN <<>> ELSE SubSeq(s, 1, MaxOf(keep))

\* str.split(sep) for a one-character separator: always at least one item,
\* empty items kept
RECURSIVE Split(_, _)
Split(s, sep) ==
  LET at == {i \in 1 .. Len(s) : s[i] = sep}
  IN  IF at = {} THEN <<s>>
      ELSE <<SubSeq(s, 1, MinOf(at) - 1)>> \o Split(DropFirst(s, MinOf(at)), sep)

\* the filter "if body" of a comprehension: the non-empty items, in order
RECURSIVE NonEmpty(_)
NonEmpty(ss) ==
  IF ss = <<>> THEN <<>>
  ELSE IF Head(ss) = <<>> THEN NonEmpty(Tail(ss))
  ELSE <<Head(ss)>> \o NonEmpty(Tail(ss))

\* the concatenation of a sequence of sequences
RECURSIVE Concat(_)
Concat(ss) ==
  IF Len(ss) = 0 THEN <<>>
  ELSE IF Len(ss) = 1 THEN ss[1]
  ELSE LET half == Len(ss) \div 2
       IN  Concat(SubSeq(ss, 1, half)) \o Concat(SubSeq(ss, half + 1, Len(ss)))

IsHighSurrogate(u) == u >= 55296 /\ u <= 56319
IsLowSurrogate(u) == u >= 56320 /\ u <= 57343

\* bytes.decode("UTF-16-LE"), strict: <<TRUE, text>>, or <<FALSE, <<>>>> for
\* UnicodeDecodeError (an odd number of bytes, a surrogate that is not half
\* of a high-low pair).  A pair decodes to one code point above 65535.
Utf16LeDecode(b) ==
  LET n == Len(b) \div 2
      u == [i \in 1 .. n |-> b[2 * i - 1] + 256 * b[2 * i]]
      paired == \A i \in 1 .. n :
                  /\ IsHighSurrogate(u[i]) => (i < n /\ IsLowSurrogate(u[i + 1]))
                  /\ IsLowSurrogate(u[i]) => (i > 1 /\ IsHighSurrogate(u[i - 1]))
  IN  IF Len(b) % 2 = 1 \/ ~paired THEN <<FALSE, <<>>>>
      ELSE <<TRUE,
             Concat([i \in 1 .. n |->
                       IF IsLowSurrogate(u[i]) THEN <<>>
                       ELSE IF IsHighSurrogate(u[i])
                         THEN <<65536 + (u[i] - 55296) * 1024 + (u[i + 1] - 56320)>>
                       ELSE <<u[i]>>])>>

\* the UTF-8 encoding of one code point (no surrogate reaches it: the text
\* comes out of a strict decode)
Utf8Char(c) ==
  IF c < 128 THEN <<c>>
  ELSE IF c < 2048 THEN <<192 + (c \div 64), 128 + (c % 64)>>
  ELSE IF c < 65536
    THEN <<224 + (c \div 4096), 128 + ((c \div 64) % 64), 128 + (c % 64)>>
  ELSE <<240 + (c \div 262144), 128 + ((c \div 4096) % 64),
         128 + ((c \div 64) % 64), 128 + (c % 64)>>

\* str.encode(): the default encoding is UTF-8
StrEncode(s) == Concat([i \in 1 .. Len(s) |-> Utf8Char(s[i])])

\* struct.unpack("<H", b)[0]: <<TRUE, n>>, or <<FALSE, 0>> for struct.error
\* when the buffer is not exactly 2 bytes
UnpackH(b) ==
  IF Len(b) = 2 THEN <<TRUE, b[1] + 256 * b[2]>> ELSE <<FALSE, 0>>

\* a wrong unpack of the version: big-endian (">I")
UnpackIBigEndian(b) == b[4] + 256 * b[3] + 65536 * b[2] + 16777216 * b[1]

\* struct.unpack("<I", b)[0] of a 4-byte buffer
UnpackI(b) == b[1] + 256 * b[2] + 65536 * b[3] + 16777216 * b[4]

\* RegType(x) succeeds exactly for the value of a member; else ValueError
RegTypeLookupOk(x) == x \in RegTypeValues

\* ------------------------------------------------------------------------
\* Entry.loads
\* ------------------------------------------------------------------------

\* key = key[1:].rstrip("\x00")
KeyFixup(k) == RStrip(DropFirst(k, 1), NUL)

\* value = value.rstrip("\x00")
ValueFixup(v) == RStrip(v, NUL)

\* a wrong condition: strips the data of every string type (REG_SZ,
\* REG_EXPAND_SZ, REG_MULTI_SZ)
StripsDataOfStringTypes(t) == t \in {1, 2, 7}

\* the condition under which d = d.rstrip("\x00") runs, once RegType(reg_type)
\* has returned a member
StripsData(t) == t = REG_SZ

\* if RegType(reg_type) == RegType.REG_SZ: d = d.rstrip("\x00")
DataFixup(t, d) == IF StripsData(t) THEN RStrip(d, NUL) ELSE d

\* a wrong field count check: extra fields are tolerated
FieldCountAtLeast(f) == Len(f) >= 5

\* key, value, reg_type, size, d = body.split(";") unpacks exactly 5 items
FieldCountOk(f) == Len(f) = 5

NoEntry == [key |-> <<>>, value |-> <<>>, regtype |-> 0, size |-> 0, data |-> <<>>]

\* Entry.loads(body): [err |-> "none", entry |-> the Entry], or the
\* exception that leaves it, named by the statement that raises it:
\*   "ValueError:fields"  key, value, reg_type, size, d = body.split(";")
\*   "struct.error:type"  struct.unpack("<H", reg_type.encode())
\*   "struct.error:size"  struct.unpack("<H", size.encode())
\*   "ValueError:RegType" RegType(reg_type)
Loads(body) ==
  LET f == Split(body, Semicolon)
  IN  IF ~FieldCountOk(f) THEN [err |-> "ValueError:fields", entry |-> NoEntry]
      ELSE
        LET key == KeyFixup(f[1])
            value == ValueFixup(f[2])
            reg_type == UnpackH(StrEncode(f[3]))
            size == UnpackH(StrEncode(f[4]))
        IN  IF ~reg_type[1] THEN [err |-> "struct.error:type", entry |-> NoEntry]
            ELSE IF ~size[1] THEN [err |-> "struct.error:size", entry |-> NoEntry]
            ELSE IF ~RegTypeLookupOk(reg_type[2])
              THEN [err |-> "ValueError:RegType", entry |-> NoEntry]
            ELSE [err |-> "none",
                  entry |-> [key |-> key, value |-> value,
                             regtype |-> reg_type[2], size |-> size[2],
                             data |-> StrEncode(DataFixup(reg_type[2], f[5]))]]

\* ------------------------------------------------------------------------
\* The input domain: what the file may hold
\* ------------------------------------------------------------------------

\* the first bytes of the file, up to 8: every combination of a right or a
\* wrong byte in each place of the signature and of the version, and files
\* that end inside the header
MagicInputs ==
  {<<a, b, c, d>> : a \in {80, 0}, b \in {82, 0}, c \in {101, 0}, d \in {103, 114, 0}}

VersionInputs ==
  {<<a, b, c, d>> : a \in {0, 1, 2}, b \in {0, 1}, c \in {0, 1}, d \in {0, 1}}

HeaderInputs ==
  {m \o v : m \in MagicInputs, v \in VersionInputs}
    \cup {SubSeq(<<80, 82, 101, 103, 1, 0, 0, 0>>, 1, n) : n \in 0 .. 7}

Nuls(n) == [i \in 1 .. n |-> NUL]

\* a field followed by 0 .. MaxNul NUL characters of padding
Padded(S) == {s \o Nuls(n) : s \in S, n \in 0 .. MaxNul}

\* "", "K", "\0K", "K\0K", each padded, behind "[", nothing, "X" or "[["
KeyFields ==
  {p \o k : p \in {<<LBracket>>, <<>>, <<88>>, <<LBracket, LBracket>>},
            k \in Padded({<<>>, <<75>>, <<NUL, 75>>, <<75, NUL, 75>>})}

\* "", "V", "\0V", "V\0V", each padded
ValueFields == Padded({<<>>, <<86>>, <<NUL, 86>>, <<86, NUL, 86>>})

\* two-character type and size fields, with code units on both sides of
\* 11, of 128 and of 256, and fields of 0, 1 and 3 characters
NumberFields ==
  {<<lo, hi>> : lo \in {0, 1, 2, 3, 7, 11, 12, 127, 128, 233, 255},
                hi \in {0, 1, 127, 128, 255}}
    \cup {<<>>, <<1>>, <<65>>, <<233>>, <<256>>, <<2047>>, <<2048>>, <<128512>>,
          <<1, 0, 0>>, <<256, 0>>, <<1, 256>>}

\* "", "d", "\0d", "d\0d", one non-ASCII and one astral character, padded
DataFields ==
  Padded({<<>>, <<100>>, <<NUL, 100>>, <<100, NUL, 100>>, <<233>>, <<128512>>})

\* the text of fields joined by ";"
RECURSIVE JoinFields(_)
JoinFields(fs) ==
  IF Len(fs) = 1 THEN fs[1] ELSE fs[1] \o <<Semicolon>> \o JoinFields(Tail(fs))

\* the fields of the record "[K;V;\x01\x00;\x04\x00;d\x00"
BaseKey == <<LBracket, 75>>
BaseValue == <<86>>
BaseType == <<REG_SZ, 0>>
BaseSize == <<4, 0>>
BaseData == <<100, NUL>>

\* records that differ from the base record in one field (in the type and
\* the data together, in the type and the size together), or in the number
\* of fields
FieldRecords ==
  {JoinFields(<<k, BaseValue, BaseType, BaseSize, BaseData>>) : k \in KeyFields}
    \cup {JoinFields(<<BaseKey, v, BaseType, BaseSize, BaseData>>) : v \in ValueFields}
    \cup {JoinFields(<<BaseKey, BaseValue, t, BaseSize, d>>) :
            t \in NumberFields, d \in DataFields}
    \cup {JoinFields(<<BaseKey, BaseValue, BaseType, s, BaseData>>) : s \in NumberFields}
    \cup {JoinFields(<<BaseKey, BaseValue, t, s, BaseData>>) :
            t \in {<<3, 0>>, <<12, 0>>, <<233>>, <<65>>},
            s \in {<<0, 1>>, <<128, 0>>, <<233>>, <<65>>, <<>>}}
    \cup {JoinFields(fs) :
            fs \in {<<BaseKey>>, <<BaseKey, BaseValue>>,
                    <<BaseKey, BaseValue, BaseType, BaseSize>>,
                    <<BaseKey, BaseValue, BaseType, BaseSize, <<100>>, <<100>>>>,
                    <<BaseKey, BaseValue, BaseType, BaseSize, <<>>, <<>>, <<>>>>}}

\* the pieces of a body of several records: two good records (the second
\* of type REG_BINARY), a record of 4 fields, one of type code 12, one with
\* no leading "[", a good record that is not closed, and a lone "]"
BodyPieces ==
  {JoinFields(<<BaseKey, BaseValue, BaseType, BaseSize, BaseData>>) \o <<RBracket>>,
   JoinFields(<<<<LBracket, 76>>, <<87>>, <<3, 0>>, <<2, 0>>, BaseData>>) \o <<RBracket>>,
   JoinFields(<<BaseKey, BaseValue, BaseType, BaseSize>>) \o <<RBracket>>,
   JoinFields(<<BaseKey, BaseValue, <<12, 0>>, BaseSize, BaseData>>) \o <<RBracket>>,
   JoinFields(<<<<88, 75>>, BaseValue, BaseType, BaseSize, BaseData>>) \o <<RBracket>>,
   JoinFields(<<BaseKey, BaseValue, BaseType, BaseSize, <<100>>>>),
   <<RBracket>>}

\* the concatenations of at most n pieces
RECURSIVE PieceTexts(_)
PieceTexts(n) ==
  IF n = 0 THEN {<<>>}
  ELSE LET shorter == PieceTexts(n - 1)
       IN  shorter \cup {t \o p : t \in shorter, p \in BodyPieces}

\* the UTF-16-LE bytes of a text
Utf16LeEncode(t) ==
  Concat([i \in 1 .. Len(t) |->
            IF t[i] < 65536 THEN <<t[i] % 256, t[i] \div 256>>
            ELSE LET hi == 55296 + ((t[i] - 65536) \div 1024)
                     lo == 56320 + ((t[i] - 65536) % 1024)
                 IN  <<hi % 256, hi \div 256, lo % 256, lo \div 256>>])

\* the bytes after the header: the encoding of a text of records, or bytes
\* that are not UTF-16-LE (an odd length, an unpaired surrogate)
BodyInputs ==
  {Utf16LeEncode(r \o <<RBracket>>) : r \in FieldRecords}
    \cup {Utf16LeEncode(t) : t \in PieceTexts(MaxRecords)}
    \cup {<<65>>, <<91, 0, 75>>, <<0, 216>>, <<0, 220>>, <<0, 216, 65, 0>>,
          <<61, 216, 0, 222, 65>>}

\* ------------------------------------------------------------------------
\* RegFile.load
\* ------------------------------------------------------------------------

VARIABLES
  pc,         \* the statement RegFile.load is at; "done" after return, "failed"
              \* once an exception has left it
  header,     \* the first bytes of the file (at most 8)
  magic,      \* <<the 4s read at line 19>>, <<>> before
  version,    \* <<the integer unpacked at line 23>>, <<>> before
  raw,        \* the bytes f.read() returned at line 27
  decoded,    \* the str decoded at line 27
  fragments,  \* the bodies the comprehension of line 29 iterates over
  idx,        \* the index in fragments of the next body to parse
  entries,    \* the list the comprehension has built so far
  returned,   \* <<c.entries>> of the RegFile returned, <<>> while none is
  error       \* the exception that left load, "none" while there is none

vars == <<pc, header, magic, version, raw, decoded, fragments, idx, entries,
          returned, error>>

Init ==
  /\ pc = "open"
  /\ header = <<>>
  /\ magic = <<>>
  /\ version = <<>>
  /\ raw = <<>>
  /\ decoded = <<>>
  /\ fragments = <<>>
  /\ idx = 1
  /\ entries = <<>>
  /\ returned = <<>>
  /\ error = "none"

\* an exception leaves load: the list under construction is dropped and no
\* RegFile is returned
Raise(e) ==
  /\ pc' = "failed"
  /\ error' = e
  /\ entries' = <<>>

\* with open(filename, "rb") as f
Open ==
  /\ pc = "open"
  /\ \E h \in HeaderInputs : header' = h
  /\ pc' = "read_magic"
  /\ UNCHANGED <<magic, version, raw, decoded, fragments, idx, entries, returned, error>>

\* magic != cls.REGFILE_SIGNATURE
MagicOk(m) == m = REGFILE_SIGNATURE

\* version != cls.REGISTRY_FILE_VERSION
VersionOk(v) == v = REGISTRY_FILE_VERSION

\* magic = struct.unpack("<4s", f.read(4))[0] and the check of it
ReadMagic ==
  /\ pc = "read_magic"
  /\ LET got == SubSeq(header, 1, IF Len(header) < 4 THEN Len(header) ELSE 4)
     IN  IF Len(got) # 4
           THEN /\ Raise("struct.error:magic")
                /\ UNCHANGED <<magic>>
         ELSE /\ magic' = got
              /\ IF MagicOk(got)
                   THEN /\ pc' = "read_version"
                        /\ UNCHANGED <<entries, error>>
                 ELSE Raise("ValueError:magic")
  /\ UNCHANGED <<header, version, raw, decoded, fragments, idx, returned>>

\* version = struct.unpack("<I", f.read(4))[0] and the check of it
ReadVersion ==
  /\ pc = "read_version"
  /\ LET got == SubSeq(header, 5, Len(header))
     IN  IF Len(got) # 4
           THEN /\ Raise("struct.error:version")
                /\ UNCHANGED <<version>>
         ELSE /\ version' = <<UnpackI(got)>>
              /\ IF VersionOk(UnpackI(got))
                   THEN /\ pc' = "read_body"
                        /\ UNCHANGED <<entries, error>>
                 ELSE Raise("ValueError:version")
  /\ UNCHANGED <<header, magic, raw, decoded, fragments, idx, returned>>

\* decoded = f.read().decode("UTF-16-LE")
ReadBody ==
  /\ pc = "read_body"
  /\ \E b \in BodyInputs :
       /\ raw' = b
       /\ LET d == Utf16LeDecode(b)
          IN  IF d[1]
                THEN /\ decoded' = d[2]
                     /\ pc' = "split"
                     /\ UNCHANGED <<entries, error>>
              ELSE /\ Raise("UnicodeDecodeError")
                   /\ UNCHANGED <<decoded>>
  /\ UNCHANGED <<header, magic, version, fragments, idx, returned>>

\* the bodies of  [... for body in decoded.split("]") if body]
SplitBody ==
  /\ pc = "split"
  /\ fragments' = NonEmpty(Split(decoded, RBracket))
  /\ idx' = 1
  /\ pc' = "loads"
  /\ UNCHANGED <<header, magic, version, raw, decoded, entries, returned, error>>

\* a wrong iteration: a body that fails to parse is skipped and the
\* comprehension goes on (per-entry recovery)
LoadsEntrySkipBad ==
  /\ pc = "loads"
  /\ idx <= Len(fragments)
  /\ LET r == Loads(fragments[idx])
     IN  entries' = IF r.err = "none" THEN Append(entries, r.entry) ELSE entries
  /\ idx' = idx + 1
  /\ UNCHANGED <<pc, error, header, magic, version, raw, decoded, fragments, returned>>

\* a wrong iteration: an Entry whose key and value an earlier Entry has is
\* merged into it (dropped)
LoadsEntryDedup ==
  /\ pc = "loads"
  /\ idx <= Len(fragments)
  /\ LET r == Loads(fragments[idx])
     IN  IF r.err = "none"
           THEN /\ entries' =
                     IF \E j \in 1 .. Len(entries) :
                          /\ entries[j].key = r.entry.key
                          /\ entries[j].value = r.entry.value
                       THEN entries
                     ELSE Append(entries, r.entry)
                /\ idx' = idx + 1
                /\ UNCHANGED <<pc, error>>
         ELSE /\ Raise(r.err)
              /\ UNCHANGED <<idx>>
  /\ UNCHANGED <<header, magic, version, raw, decoded, fragments, returned>>

\* one iteration of the comprehension: Entry.loads(body) appends an Entry,
\* or its exception leaves load
LoadsEntry ==
  /\ pc = "loads"
  /\ idx <= Len(fragments)
  /\ LET r == Loads(fragments[idx])
     IN  IF r.err = "none"
           THEN /\ entries' = Append(entries, r.entry)
                /\ idx' = idx + 1
                /\ UNCHANGED <<pc, error>>
         ELSE /\ Raise(r.err)
              /\ UNCHANGED <<idx>>
  /\ UNCHANGED <<header, magic, version, raw, decoded, fragments, returned>>

\* c = cls(); c.entries = entries; return c
Return ==
  /\ pc = "loads"
  /\ idx > Len(fragments)
  /\ returned' = <<entries>>
  /\ pc' = "done"
  /\ UNCHANGED <<header, magic, version, raw, decoded, fragments, idx, entries, error>>

Next ==
  \/ Open
  \/ ReadMagic
  \/ ReadVersion
  \/ ReadBody
  \/ SplitBody
  \/ LoadsEntry
  \/ Return

Spec == Init /\ [][Next]_vars

\* ------------------------------------------------------------------------
\* Vocabulary of the properties, stated without the operators of the code
\* ------------------------------------------------------------------------

\* the number of c in s
CountOf(s, c) == Cardinality({i \in 1 .. Len(s) : s[i] = c})

\* the k-th smallest member of a set of integers
NthSmallest(S, k) == CHOOSE x \in S : Cardinality({y \in S : y < x}) = k - 1

\* the k-th of the CountOf(s, c) + 1 pieces that the occurrences of c cut s into
Piece(s, c, k) ==
  LET cuts == {0} \cup {i \in 1 .. Len(s) : s[i] = c} \cup {Len(s) + 1}
  IN  SubSeq(s, NthSmallest(cuts, k) + 1, NthSmallest(cuts, k + 1) - 1)

\* the non-empty pieces that "]" cuts a text into, in the order of the text
FragmentsOf(t) ==
  SelectSeq([k \in 1 .. CountOf(t, RBracket) + 1 |-> Piece(t, RBracket, k)],
            LAMBDA x : x # <<>>)

\* the k-th ";"-field of a raw entry body
FieldOf(body, k) == Piece(body, Semicolon, k)

\* s is t followed by NUL characters only (none included)
IsNulPaddingOf(s, t) ==
  /\ Len(t) <= Len(s)
  /\ SubSeq(s, 1, Len(t)) = t
  /\ \A i \in Len(t) + 1 .. Len(s) : s[i] = NUL

EndsWithNul(s) == s # <<>> /\ s[Len(s)] = NUL

\* a field of exactly two characters, each a code unit below bound
TwoUnits(fld, bound) == Len(fld) = 2 /\ fld[1] < bound /\ fld[2] < bound

\* the little-endian 16-bit integer of a two-character field
LittleEndian16(fld) == fld[1] + 256 * fld[2]

\* the errors of the two header checks
InvalidSignature == "ValueError:magic"
UnsupportedVersion == "ValueError:version"

\* the exceptions of Entry.loads
LoadsErrors ==
  {"ValueError:fields", "struct.error:type", "struct.error:size", "ValueError:RegType"}

\* Entry.loads raised on fragments[idx]
FailedInLoads == pc = "failed" /\ error \in LoadsErrors

\* the indices of the fragments Entry.loads returned an Entry for, of which
\* entries[i] is the Entry of fragments[i]
Parsed == IF pc \in {"loads", "done"} THEN 1 .. Len(entries) ELSE {}

\* the indices of the fragments Entry.loads has been called on
Called == Parsed \cup (IF FailedInLoads THEN {idx} ELSE {})

\* the header has been checked (or has failed a check)
HeaderChecked == pc \notin {"open", "read_magic", "read_version"}

\* ------------------------------------------------------------------------
\* Properties
\* ------------------------------------------------------------------------

\* C1: for a file of at least 8 bytes, load fails with the signature error
\* exactly when bytes 0-3 differ from 50 52 65 67 and, when they match, with
\* the version error exactly when bytes 4-7 as a little-endian unsigned
\* 32-bit integer differ from 1; the signature is checked first, and in
\* neither failing case is anything decoded or returned.
C1_HeaderValidation ==
  (Len(header) = 8 /\ HeaderChecked) =>
    LET sigOk == SubSeq(header, 1, 4) = <<80, 82, 101, 103>>
        ver == header[5] + 256 * header[6] + 65536 * header[7] + 16777216 * header[8]
    IN  /\ (error = InvalidSignature) <=> ~sigOk
        /\ (error = UnsupportedVersion) <=> (sigOk /\ ver # 1)
        /\ error \in {InvalidSignature, UnsupportedVersion} =>
             /\ pc = "failed"
             /\ raw = <<>> /\ decoded = <<>> /\ fragments = <<>>
             /\ entries = <<>> /\ returned = <<>>

\* a header wrong in both fields has been rejected with the signature error
C1_Witness ==
  /\ Len(header) = 8
  /\ SubSeq(header, 1, 4) = <<80, 82, 101, 114>>
  /\ SubSeq(header, 5, 8) = <<2, 0, 0, 0>>
  /\ pc = "failed"
  /\ error = InvalidSignature

\* C2: an otherwise well-formed entry body (five fields, two-character type
\* and size fields, here with code units below 128) whose type field
\* resolves to a code above 11 is decoded, to an Entry whose type is that
\* code.
C2_UnknownTypeDecodes ==
  \A i \in Called :
    LET body == fragments[i]
    IN  (/\ CountOf(body, Semicolon) = 4
         /\ TwoUnits(FieldOf(body, 3), 128)
         /\ TwoUnits(FieldOf(body, 4), 128)
         /\ LittleEndian16(FieldOf(body, 3)) > 11)
          => /\ i \in Parsed
             /\ entries[i].regtype = LittleEndian16(FieldOf(body, 3))

\* C3: a type (respectively size) field of exactly two characters with code
\* units lo and hi in 0..255 never fails to convert, and the type
\* (respectively size) of the Entry is lo + 256*hi.
C3_LittleEndianReinterpretation ==
  \A i \in Called :
    LET body == fragments[i]
    IN  CountOf(body, Semicolon) = 4 =>
          /\ TwoUnits(FieldOf(body, 3), 256) =>
               /\ ~(FailedInLoads /\ error = "struct.error:type")
               /\ i \in Parsed => entries[i].regtype = LittleEndian16(FieldOf(body, 3))
          /\ TwoUnits(FieldOf(body, 4), 256) =>
               /\ ~(FailedInLoads /\ error = "struct.error:size")
               /\ i \in Parsed => entries[i].size = LittleEndian16(FieldOf(body, 4))

\* C4: Entry.loads fails for every entry body whose type field or size field
\* is not exactly two characters with code units in 0..255: no such body is
\* turned into an Entry.
C4_MalformedNumberFieldRejected ==
  \A i \in Called :
    LET body == fragments[i]
    IN  (/\ CountOf(body, Semicolon) = 4
         /\ \/ ~TwoUnits(FieldOf(body, 3), 256)
            \/ ~TwoUnits(FieldOf(body, 4), 256))
          => i \notin Parsed

\* C5: the data of an Entry of type SZ (1) is the encoded data field with all
\* its trailing NULs, and nothing else, removed; the data of an Entry of any
\* other type is the encoded data field unchanged, trailing NULs included.
C5_TypeDependentTrimming ==
  \A i \in Parsed :
    LET fld == FieldOf(fragments[i], 5)
        e == entries[i]
    IN  IF e.regtype = 1
          THEN /\ ~EndsWithNul(e.data)
               /\ IsNulPaddingOf(StrEncode(fld), e.data)
        ELSE e.data = StrEncode(fld)

\* the data field "d\x00" has given b"d" in an Entry of type 1 and b"d\x00"
\* in an Entry of type 3
C5_Witness ==
  /\ pc = "done"
  /\ \E i, j \in Parsed :
       /\ FieldOf(fragments[i], 5) = <<100, 0>>
       /\ entries[i].regtype = 1
       /\ entries[i].data = <<100>>
       /\ FieldOf(fragments[j], 5) = <<100, 0>>
       /\ entries[j].regtype = 3
       /\ entries[j].data = <<100, 0>>

\* C6: when load succeeds, the entries returned are the parses of the
\* non-empty fragments of the decoded text cut at "]", one each, in the order
\* of the file, equal ones kept; an empty body gives the empty sequence and
\* no error.
C6_OrderAndCount ==
  /\ pc = "done" =>
       /\ Len(returned) = 1
       /\ Len(returned[1]) = Len(FragmentsOf(decoded))
       /\ \A i \in 1 .. Len(returned[1]) :
            /\ Loads(FragmentsOf(decoded)[i]).err = "none"
            /\ returned[1][i] = Loads(FragmentsOf(decoded)[i]).entry
  /\ (HeaderChecked /\ pc # "read_body" /\ raw = <<>>) =>
       /\ pc = "failed" => error \in {InvalidSignature, UnsupportedVersion,
                                     "struct.error:magic", "struct.error:version"}
       /\ pc = "done" => returned = << <<>> >>

\* three records, the first and the third equal and the second different,
\* have been returned as three entries in that order
C6_Witness ==
  /\ pc = "done"
  /\ Len(returned[1]) = 3
  /\ returned[1][1] = returned[1][3]
  /\ returned[1][1].key # returned[1][2].key

\* C7: Entry.loads fails at the unpacking of the fields exactly for the
\* bodies that do not hold exactly four ";", those with fewer and those with
\* more; a body it parses holds exactly four.
C7_FieldCount ==
  \A i \in Called :
    LET n == CountOf(fragments[i], Semicolon)
    IN  /\ n # 4 => (FailedInLoads /\ error = "ValueError:fields")
        /\ (FailedInLoads /\ error = "ValueError:fields") => n # 4
        /\ i \in Parsed => n = 4

\* a body of six fields (a data field holding a ";") has been rejected
C7_Witness ==
  /\ FailedInLoads
  /\ error = "ValueError:fields"
  /\ CountOf(fragments[idx], Semicolon) = 5

\* C8: if any raw entry body of the input fails to parse, whatever its
\* position, load fails as a whole: nothing is returned, no partial sequence
\* is kept; what is returned holds the parse of every non-empty fragment.
C8_AllOrNothing ==
  /\ (\E i \in 1 .. Len(FragmentsOf(decoded)) :
        Loads(FragmentsOf(decoded)[i]).err # "none")
       => /\ returned = <<>>
          /\ pc # "done"
  /\ pc = "failed" => (returned = <<>> /\ entries = <<>>)
  /\ returned # <<>> => Len(returned[1]) = Len(FragmentsOf(decoded))

\* load has failed on the second of three bodies, the first and the third
\* of which parse
C8_Witness ==
  /\ FailedInLoads
  /\ idx = 2
  /\ Len(fragments) = 3
  /\ Loads(fragments[1]).err = "none"
  /\ Loads(fragments[3]).err = "none"
  /\ returned = <<>>

C10_OnlyBracketDropped ==
  \A i \in Parsed :
    LET k == FieldOf(fragments[i], 1)
        e == entries[i]
    IN  IF k # <<>> /\ k[1] = LBracket
          THEN IsNulPaddingOf(Tail(k), e.key)
        ELSE IsNulPaddingOf(k, e.key)

====
